---- MODULE Spec2Model ----
(***************************************************************************)
(* Model of dhcpcd's configure.c: the lease-to-system reconciliation       *)
(* engine.  configure() diffs the lease against what the interface_t       *)
(* remembers (previous_routes, previous_address, previous_netmask,         *)
(* previous_mtu) and drives add_address / del_address / add_route /        *)
(* del_route / set_mtu, the downstream config writers, the hostname and    *)
(* the lifecycle hook.                                                     *)
(*                                                                         *)
(* The build modelled has ENABLE_INFO, ENABLE_NTP and ENABLE_NIS defined;  *)
(* __linux__ is a variable fixed at Init, so both builds are covered.      *)
(* Addresses are AddrBits wide instead of 32 bits.                         *)
(***************************************************************************)
EXTENDS Integers, Sequences, FiniteSets, TLC

\* ------------------------------------------------------------------ bounds
\* Longest route list a lease carries.
MaxRoutes == 2
\* Width of an in_addr in the model.
AddrBits == 4
\* Longest list of NTP servers a lease carries.
MaxNtp == 2
\* Most lines of a time-service file.
MaxLines == 2
\* Longest string value of a lease.
MaxName == 3

\* ------------------------------------------------------------- value sets
RECURSIVE Pow2(_)
Pow2(n) == IF n = 0 THEN 1 ELSE 2 * Pow2(n - 1)

\* INADDR_BROADCAST: the all-ones address (a host netmask).
INADDR_BROADCAST == Pow2(AddrBits) - 1

\* a & b on in_addr values, bit by bit.
RECURSIVE BitAnd(_, _, _)
BitAnd(a, b, n) ==
  IF n = 0 THEN 0
  ELSE ((a % 2) * (b % 2)) + 2 * BitAnd(a \div 2, b \div 2, n - 1)

\* route_t without its next pointer.
Route(d, n, g) == [destination |-> d, netmask |-> n, gateway |-> g]

\* The routes a lease can carry: the default route, a route with destination
\* 0 and a non-zero netmask, and the subnet route of the lease addresses.
RouteUniverse == {Route(0, 0, 7), Route(0, 12, 7), Route(4, 12, 0)}

RECURSIVE SeqsUpTo(_, _)
SeqsUpTo(S, n) ==
  IF n = 0 THEN {<<>>}
  ELSE LET shorter == SeqsUpTo(S, n - 1)
       IN shorter \cup {Append(s, x) : s \in {t \in shorter : Len(t) = n - 1}, x \in S}

RouteLists == SeqsUpTo(RouteUniverse, MaxRoutes)

\* (address, netmask) pairs of a lease that grants an address.
LeaseNets == {<<5, 12>>, <<6, 12>>, <<5, INADDR_BROADCAST>>}
\* dhcp->mtu: 0 is "not sent".
LeaseMtus == {0, 1400}
\* iface->mtu, the MTU the interface had when it was read.
NativeMtus == {1500}
\* options->metric.
Metrics == {0, 1}

SeqToSet(s) == {s[i] : i \in 1..Len(s)}

\* ------------------------------------------------------------------ state
VARIABLES
  previous_routes,   \* iface->previous_routes, a list of route_t
  previous_address,  \* iface->previous_address.s_addr
  previous_netmask,  \* iface->previous_netmask.s_addr
  previous_mtu,      \* iface->previous_mtu
  mtu,               \* iface->mtu
  linux,             \* whether __linux__ is defined in this build
  kroutes,           \* the kernel's routing table, tracked by the strict-kernel specification only
  ntpfile,           \* the time-service file _make_ntp is called on (NTPFILE in make_ntp)
  openntpfile,       \* OPENNTPFILE, the second time-service file of make_ntp
  ntpbuild,          \* which of NTPFILE, OPENNTPFILE, NTPSERVICE, OPENNTPSERVICE this build defines
  resolvfile,        \* RESOLVFILE, the resolver file make_resolv writes in direct-file mode
  children,          \* the child processes started and not yet terminated
  pc,                \* "idle": no call in progress; "done": configure returned
  pre,               \* the interface_t fields as they were when configure was entered
  args,              \* the arguments of the call that returned
  trace,             \* the calls configure made on its collaborators, in order
  ret                \* configure's return value

vars == <<previous_routes, previous_address, previous_netmask, previous_mtu,
          mtu, linux, kroutes, ntpfile, openntpfile, ntpbuild, resolvfile, children,
          pc, pre, args, trace, ret>>

\* What lies outside the interface_t and the kernel's routes.
world == <<ntpfile, openntpfile, ntpbuild, resolvfile, children>>

\* The interface_t fields configure reads and writes, as one record.
Iface == [routes |-> previous_routes, address |-> previous_address,
          netmask |-> previous_netmask, pmtu |-> previous_mtu, mtu |-> mtu]

\* ----------------------------------------------------------------- strings
\* A C string is a sequence of one-character strings; a char * may be NULL.
Str(chars) == [null |-> FALSE, chars |-> chars]
NullStr == [null |-> TRUE, chars |-> <<>>]
StrNone == <<"(", "n", "o", "n", "e", ")">>
StrLocalhost == <<"l", "o", "c", "a", "l", "h", "o", "s", "t">>

\* The character's code, as far as `*dname > 32` tells characters apart; "DEL"
\* stands for the character of code 127.
CharCode(c) == CASE c = " " -> 32 [] c = "\t" -> 9 [] c = "DEL" -> 127 [] OTHER -> 97

\* ------------------------------------------------------------------ events
\* What configure asks of its collaborators, as recorded in trace.
\* A route call also names the part of configure that made it: "old" (lines
\* 504-526), "subnet" (lines 585-598) or "lease" (lines 600-651).
EvDelRoute(r, metric, ok, part) ==
  [op |-> "del_route", route |-> r, metric |-> metric, ok |-> ok, part |-> part]
EvAddRoute(r, metric, ok, part) ==
  [op |-> "add_route", route |-> r, metric |-> metric, ok |-> ok, part |-> part]
EvAddAddress(a, n, res) == [op |-> "add_address", address |-> a, netmask |-> n, res |-> res]
EvDelAddress(a, n, ok) == [op |-> "del_address", address |-> a, netmask |-> n, ok |-> ok]
EvSetMtu(m, ok) == [op |-> "set_mtu", mtu |-> m, ok |-> ok]
EvRestoreResolv(spawned) == [op |-> "restore_resolv", spawned |-> spawned]
EvMakeResolv(ok) == [op |-> "make_resolv", ok |-> ok]
EvMakeNtp == [op |-> "make_ntp"]
EvMakeNis(ok) == [op |-> "make_nis", ok |-> ok]
EvSetHostname(name) == [op |-> "sethostname", name |-> name]
EvWriteInfo(ok) == [op |-> "write_info", ok |-> ok]
EvExecScript(arg, spawned) == [op |-> "exec_script", arg |-> arg, spawned |-> spawned]

\* ---------------------------------------------------------- exec_script
\* exec_script: nothing is spawned when stat (script) fails; exec_cmd forks
\* and returns without waiting, and a failed fork is only logged.
exec_script(arg, env) == <<EvExecScript(arg, env.script /\ env.fork)>>

\* restore_resolv without the stat of RESOLVCONF.
restore_resolv_always(env) == <<EvRestoreResolv(env.fork)>>

\* restore_resolv: resolvconf -d <ifname>, only when RESOLVCONF exists.
restore_resolv(env) == <<EvRestoreResolv(env.resolvconf /\ env.fork)>>

\* ------------------------------------------------------------ collaborators
\* add_route's result: in the strict kernel it fails exactly when the route
\* is already in the table; otherwise the environment decides call by call.
AddRouteOk(k, r, i, env) == IF env.kernel THEN r \notin k ELSE env.add_route[i]
KernelAdd(k, r, ok, env) == IF env.kernel /\ ok THEN k \cup {r} ELSE k
KernelDel(k, R, env) == IF env.kernel THEN k \ R ELSE k
\* del_route's result, which configure never reads.
DelRouteOk(k, r, env) == IF env.kernel THEN r \in k ELSE env.del

\* --------------------------------------------------- configure, lines 504-526
\* Route equality as the loops test it: destination, netmask and gateway.
SameRoute(a, b) ==
  /\ a.destination = b.destination
  /\ a.netmask = b.netmask
  /\ a.gateway = b.gateway

\* Have with the search stopping at the lease's first route.
HaveFirstOnly(route, dhcp) ==
  /\ dhcp.address # 0
  /\ dhcp.routes # <<>>
  /\ SameRoute(dhcp.routes[1], route)

\* `have`: the lease still carries the route (only looked at with an address).
Have(route, dhcp) ==
  /\ dhcp.address # 0
  /\ \E i \in 1..Len(dhcp.routes) : SameRoute(dhcp.routes[i], route)

\* The guard of the removal loop's body.
Removable(route, options) == route.destination # 0 \/ options.dogateway

\* The previous routes del_route is called for, in list order.
StaleRoutes(s, options, dhcp) ==
  SelectSeq(s.routes, LAMBDA r : Removable(r, options) /\ ~Have(r, dhcp))

RemoveOldRoutes(s, k, options, dhcp, env) ==
  LET stale == StaleRoutes(s, options, dhcp)
  IN [i \in 1..Len(stale) |->
        EvDelRoute(stale[i], options.metric, DelRouteOk(k, stale[i], env), "old")]

\* --------------------------------------------------- configure, lines 528-558
\* ReleaseMtu leaving previous_mtu as it was.
ReleaseMtuKept(s, env) == s.pmtu

\* iface->previous_mtu = iface->mtu, whatever set_mtu returned.
ReleaseMtu(s, env) == s.mtu

Release(s, options, env) ==
  LET restore == s.mtu # 0 /\ s.pmtu # s.mtu
      had == s.address # 0
  IN [s |-> [routes |-> <<>>,
             address |-> IF had THEN 0 ELSE s.address,
             netmask |-> IF had THEN 0 ELSE s.netmask,
             pmtu |-> IF restore THEN ReleaseMtu(s, env) ELSE s.pmtu,
             mtu |-> s.mtu],
      trace |-> (IF restore THEN <<EvSetMtu(s.mtu, env.set_mtu)>> ELSE <<>>)
                \o (IF had
                    THEN <<EvDelAddress(s.address, s.netmask, env.del)>>
                         \o restore_resolv(env) \o exec_script("down", env)
                    ELSE <<>>),
      ret |-> 0]

\* --------------------------------------------------- configure, lines 560-574
\* The MTU asked for: the lease's when it sends one, else the interface's own.
TargetMtu(s, dhcp) == IF dhcp.mtu # 0 THEN dhcp.mtu ELSE s.mtu

SetMtu(s, options, dhcp, env) ==
  LET target == TargetMtu(s, dhcp)
  IN IF options.domtu /\ target # s.pmtu
     THEN [pmtu |-> IF env.set_mtu THEN target ELSE s.pmtu,
           trace |-> <<EvSetMtu(target, env.set_mtu)>>]
     ELSE [pmtu |-> s.pmtu, trace |-> <<>>]

\* --------------------------------------------------- configure, lines 576-583
\* AddressFatal without the errno test.
AddressFatalAlways(res) == res # "ok"

\* add_address (...) < 0 && errno != EEXIST
AddressFatal(res) == res = "fail"

\* Aborted with the previous routes freed before the address was tried.
AbortedRoutesFreed(s, pmtu) == [s EXCEPT !.pmtu = pmtu, !.routes = <<>>]

\* The interface_t that `return -1` at line 578 leaves behind.
Aborted(s, pmtu) == [s EXCEPT !.pmtu = pmtu]

\* The old address deleted whether the lease's is another or the same.
DelOldAddressAlways(s, dhcp, env) ==
  IF s.address # 0 THEN <<EvDelAddress(s.address, s.netmask, env.del)>> ELSE <<>>

\* Lines 580-583.
DelOldAddress(s, dhcp, env) ==
  IF s.address # dhcp.address /\ s.address # 0
  THEN <<EvDelAddress(s.address, s.netmask, env.del)>>
  ELSE <<>>

\* --------------------------------------------------- configure, lines 585-598
\* The subnet route is re-added with the metric and the metric-less one removed.
SubnetRoute(dhcp) == Route(BitAnd(dhcp.address, dhcp.netmask, AddrBits), dhcp.netmask, 0)

Remetric(s, options, dhcp) ==
  /\ linux
  /\ s.address # dhcp.address
  /\ options.metric > 0
  /\ dhcp.netmask # INADDR_BROADCAST

\* --------------------------------------------------- configure, lines 600-651
\* "Don't set default routes if not asked to"
SkipRoute(route, options) ==
  route.destination = 0 /\ route.netmask = 0 /\ ~options.dogateway

\* The inner loop: the route that failed to add is one of previous_routes.
Owned(route, s) == \E i \in 1..Len(s.routes) : SameRoute(s.routes[i], route)

\* Remember without the search of previous_routes.
RememberAdded(ok, route, s) == ok

\* remember >= 0 at line 629.
Remember(ok, route, s) == ok \/ Owned(route, s)

RECURSIVE AddRoutes(_, _, _, _, _, _)
AddRoutes(routes, i, s, options, env, acc) ==
  IF i > Len(routes) THEN acc
  ELSE LET route == routes[i]
       IN IF SkipRoute(route, options)
          THEN AddRoutes(routes, i + 1, s, options, env, acc)
          ELSE LET ok == AddRouteOk(acc.k, route, i, env)
               IN AddRoutes(routes, i + 1, s, options, env,
                    [new_routes |-> IF Remember(ok, route, s)
                                    THEN Append(acc.new_routes, route)
                                    ELSE acc.new_routes,
                     trace |-> Append(acc.trace,
                                     EvAddRoute(route, options.metric, ok, "lease")),
                     k |-> KernelAdd(acc.k, route, ok, env)])

\* previous_routes is replaced only under `if (dhcp->routes)`.
ReplaceRoutes(s, dhcp, new_routes) ==
  IF dhcp.routes # <<>> THEN new_routes ELSE s.routes

\* --------------------------------------------------- configure, lines 653-666
\* make_resolv writes through resolvconf's pipe when RESOLVCONF exists, else
\* to the resolver file; it fails when the pipe or the file cannot be opened.
make_resolv(env) == <<EvMakeResolv(IF env.resolvconf THEN env.fork ELSE env.fopen)>>

make_ntp(env) == <<EvMakeNtp>>

make_nis(env) == <<EvMakeNis(env.fopen)>>

Downstream(options, dhcp, env) ==
  (IF options.dodns /\ dhcp.dnsservers # <<>> THEN make_resolv(env) ELSE <<>>)
  \o (IF options.dontp /\ dhcp.ntpservers # <<>> THEN make_ntp(env) ELSE <<>>)
  \o (IF options.donis /\ (dhcp.nisservers # <<>> \/ ~dhcp.nisdomain.null)
      THEN make_nis(env) ELSE <<>>)

\* --------------------------------------------------- configure, lines 668-699
\* he->h_name up to its first character that is not above 32.
RECURSIVE NameHead(_)
NameHead(name) ==
  IF name = <<>> \/ CharCode(Head(name)) <= 32 THEN <<>>
  ELSE <<Head(name)>> \o NameHead(Tail(name))

\* The reverse lookup made whether host name management is requested or not.
LookedUpAlways(options, dhcp, env) ==
  IF dhcp.hostname.null /\ ~env.he.null THEN NameHead(env.he.chars) ELSE <<>>

\* newhostname after the reverse lookup at lines 669-682.
LookedUp(options, dhcp, env) ==
  IF options.dohostname /\ dhcp.hostname.null /\ ~env.he.null
  THEN NameHead(env.he.chars)
  ELSE <<>>

WantHostname(options, env) ==
  \/ options.dohostname
  \/ env.curhostname = <<>>
  \/ env.curhostname = StrNone
  \/ env.curhostname = StrLocalhost

SetHostname(options, dhcp, env) ==
  LET newhostname == IF dhcp.hostname.null
                     THEN LookedUp(options, dhcp, env)
                     ELSE dhcp.hostname.chars
  IN IF WantHostname(options, env) /\ newhostname # <<>>
     THEN <<EvSetHostname(newhostname)>>
     ELSE <<>>

\* --------------------------------------------------- configure, lines 701-717
write_info(env) == <<EvWriteInfo(env.fopen)>>

\* Changed without the netmask comparison.
ChangedAddressOnly(s, dhcp) == s.address # dhcp.address

\* The test at lines 705-706.
Changed(s, dhcp) == s.address # dhcp.address \/ s.netmask # dhcp.netmask

HookArg(s, dhcp) == IF Changed(s, dhcp) THEN "new" ELSE "up"

\* --------------------------------------------------------------- configure
\* configure (options, iface, dhcp) with none of them NULL: s is the
\* interface_t on entry, k the kernel's routes, env the collaborators' answers.
\* The result holds the interface_t and the kernel's routes on return, the
\* calls made and the return value.
configure(s, k, options, dhcp, env) ==
  LET removed == RemoveOldRoutes(s, k, options, dhcp, env)
      k1 == KernelDel(k, SeqToSet(StaleRoutes(s, options, dhcp)), env)
  IN IF dhcp.address = 0
     THEN LET r == Release(s, options, env)
          IN [s |-> r.s, k |-> k1, trace |-> removed \o r.trace, ret |-> r.ret]
     ELSE
       LET m == SetMtu(s, options, dhcp, env)
           addr == <<EvAddAddress(dhcp.address, dhcp.netmask, env.add_address)>>
       IN IF AddressFatal(env.add_address)
          THEN [s |-> Aborted(s, m.pmtu), k |-> k1,
                trace |-> removed \o m.trace \o addr, ret |-> -1]
          ELSE
            LET delold == DelOldAddress(s, dhcp, env)
                quirk == Remetric(s, options, dhcp)
                sub == SubnetRoute(dhcp)
                subok == AddRouteOk(k1, sub, 0, env)
                ksub == KernelAdd(k1, sub, subok, env)
                k2 == IF quirk THEN KernelDel(ksub, {sub}, env) ELSE k1
                requirk == IF quirk
                           THEN <<EvAddRoute(sub, options.metric, subok, "subnet"),
                                  EvDelRoute(sub, 0, DelRouteOk(ksub, sub, env), "subnet")>>
                           ELSE <<>>
                added == AddRoutes(dhcp.routes, 1, s, options, env,
                                   [new_routes |-> <<>>, trace |-> <<>>, k |-> k2])
                changed == Changed(s, dhcp)
            IN [s |-> [routes |-> ReplaceRoutes(s, dhcp, added.new_routes),
                       address |-> IF changed THEN dhcp.address ELSE s.address,
                       netmask |-> IF changed THEN dhcp.netmask ELSE s.netmask,
                       pmtu |-> m.pmtu,
                       mtu |-> s.mtu],
                k |-> added.k,
                trace |-> removed \o m.trace \o addr \o delold \o requirk
                          \o added.trace \o Downstream(options, dhcp, env)
                          \o SetHostname(options, dhcp, env) \o write_info(env)
                          \o exec_script(HookArg(s, dhcp), env),
                ret |-> 0]

\* ------------------------------------------------------------------ inputs
\* add_address: done, already there (errno EEXIST), or failed otherwise.
AddressResults == {"ok", "EEXIST", "fail"}

\* The options, lease and environment the actions below vary.
BaseOptions == [dogateway |-> TRUE, domtu |-> FALSE, metric |-> 0, dodns |-> FALSE,
                dontp |-> FALSE, donis |-> FALSE, dohostname |-> FALSE]

BaseLease == [address |-> 0, netmask |-> 0, mtu |-> 0, routes |-> <<>>,
              dnsservers |-> <<>>, ntpservers |-> <<>>, nisservers |-> <<>>,
              nisdomain |-> NullStr, hostname |-> NullStr]

BaseEnv == [kernel |-> FALSE, add_address |-> "ok", set_mtu |-> TRUE,
            add_route |-> [i \in 0..0 |-> TRUE], del |-> TRUE, fopen |-> TRUE,
            fork |-> TRUE, script |-> TRUE, resolvconf |-> FALSE,
            he |-> NullStr, curhostname |-> <<"b", "o", "x">>]

\* A lease grants one of LeaseNets or, lost, carries the zero address.
Nets == LeaseNets \cup {<<0, 0>>}

\* The add_route calls configure reaches: 0 is the subnet route's, i the
\* lease's i-th route's.
Asked(s, options, dhcp, res) ==
  IF dhcp.address = 0 \/ AddressFatal(res) THEN {}
  ELSE (IF Remetric(s, options, dhcp) THEN {0} ELSE {})
       \cup {i \in 1..Len(dhcp.routes) : ~SkipRoute(dhcp.routes[i], options)}

\* Whether configure reaches a del_route or del_address call.
DelAsked(s, options, dhcp, res) ==
  \/ StaleRoutes(s, options, dhcp) # <<>>
  \/ /\ s.address # 0
     /\ s.address # dhcp.address
     /\ dhcp.address = 0 \/ ~AddressFatal(res)
  \/ /\ dhcp.address # 0
     /\ ~AddressFatal(res)
     /\ Remetric(s, options, dhcp)

\* One result for each add_route call that is made: failing names those that fail.
AddRouteOutcome(dhcp, failing) == [i \in 0..Len(dhcp.routes) |-> i \notin failing]

\* -------------------------------------------------- cleanmetas, lines 350-377
\* cleanmetas copied without looking for quotes.
cleanmetas_copy(cstr) == cstr.chars

\* The loop at lines 361-371 on the characters before the terminating 0.
RECURSIVE cleanmetas_loop(_)
cleanmetas_loop(chars) ==
  IF chars = <<>> THEN <<>>
  ELSE (IF Head(chars) = "'" THEN <<"'", "\\", "'", "'">> ELSE <<Head(chars)>>)
       \o cleanmetas_loop(Tail(chars))

\* cleanmetas (cstr): the text of the static buffer it returns, for a string
\* whose escaped form fits the buffer.
cleanmetas(cstr) ==
  IF cstr.null \/ cstr.chars = <<>> THEN <<>> ELSE cleanmetas_loop(cstr.chars)

\* write_info, lines 413-414: the HOSTNAME line, when the lease has a host name.
EvFprintf(text) == [op |-> "fprintf", text |-> text]

InfoHostname(dhcp) ==
  IF dhcp.hostname.null THEN <<>>
  ELSE <<EvFprintf(<<"H", "O", "S", "T", "N", "A", "M", "E", "=", "'">> \o cleanmetas(dhcp.hostname) \o <<"'", "\n">>)>>

\* The string values of a lease: none, or up to MaxName characters.
NameChars == {"a", "'", "\\", " "}
Names == {NullStr} \cup {Str(chars) : chars \in SeqsUpTo(NameChars, MaxName)}

\* --------------------------------------------------- _make_ntp, lines 183-272
\* Text is a sequence of characters; NTPDRIFTFILE and NTPLOGFILE stand for the
\* text of those macros, which holds no space and no newline.
KwServer == <<"s", "e", "r", "v", "e", "r">>
IfName == <<"e", "t", "h", "0">>

DigitChar(d) == <<"0", "1", "2", "3", "4", "5", "6", "7", "8", "9">>[d + 1]

RECURSIVE Digits(_)
Digits(n) == IF n < 10 THEN <<DigitChar(n)>> ELSE Digits(n \div 10) \o <<DigitChar(n % 10)>>

Octet(a, k) == (a \div Pow2(8 * k)) % 256

\* inet_ntoa: the four octets in decimal, joined by dots.
inet_ntoa(a) ==
  Digits(Octet(a, 3)) \o <<".">> \o Digits(Octet(a, 2)) \o <<".">>
  \o Digits(Octet(a, 1)) \o <<".">> \o Digits(Octet(a, 0))

\* Index of the first character of chars that is in delims, 0 if there is none.
FirstDelim(chars, delims) ==
  IF \E i \in 1..Len(chars) : chars[i] \in delims
  THEN CHOOSE i \in 1..Len(chars) :
         chars[i] \in delims /\ \A j \in 1..(i - 1) : chars[j] \notin delims
  ELSE 0

\* strsep (&a, delims): the token it returns and what it leaves in a.
strsep(a, delims) ==
  IF a.null THEN [token |-> NullStr, rest |-> NullStr]
  ELSE LET i == FirstDelim(a.chars, delims)
       IN IF i = 0 THEN [token |-> a, rest |-> NullStr]
          ELSE [token |-> Str(SubSeq(a.chars, 1, i - 1)),
                rest |-> Str(SubSeq(a.chars, i + 1, Len(a.chars)))]

\* Lines 211-217: the token compared with the lease's servers, NULL for a line
\* that is skipped.
ServerToken(buffer) ==
  LET first == strsep(Str(buffer), {" "})
  IN IF first.token.chars # KwServer THEN NullStr
     ELSE strsep(first.rest, {" ", "\n"}).token

\* Lines 219-224: the token is the text of one of the lease's servers.
MatchesServer(token, ntpservers) ==
  \E i \in 1..Len(ntpservers) : token.chars = inet_ntoa(ntpservers[i])

\* Lines 209-228: tomatch when the reading stops.  lines[n] is what the n-th
\* fgets returns; every line is shorter than the buffer.
RECURSIVE ReadServers(_, _, _, _)
ReadServers(lines, n, ntpservers, tomatch) ==
  IF n > Len(lines) THEN tomatch
  ELSE LET token == ServerToken(lines[n])
       IN IF token.null THEN ReadServers(lines, n + 1, ntpservers, tomatch)
          ELSE LET left == IF MatchesServer(token, ntpservers)
                           THEN tomatch - 1 ELSE tomatch
               IN IF left = 0 THEN 0
                  ELSE ReadServers(lines, n + 1, ntpservers, left)

\* Lines 256-262.
RECURSIVE ServerLines(_, _)
ServerLines(ntpservers, ntp) ==
  IF ntpservers = <<>> THEN <<>>
  ELSE LET a == inet_ntoa(Head(ntpservers))
       IN (IF ntp THEN <<<<"r", "e", "s", "t", "r", "i", "c", "t", " ">> \o a \o <<" ", "n", "o", "m", "o", "d", "i", "f", "y", " ", "n", "o", "t", "r", "a", "p", " ", "n", "o", "q", "u", "e", "r", "y", "\n">>>>
           ELSE <<>>)
          \o <<KwServer \o <<" ">> \o a \o <<"\n">>>>
          \o ServerLines(Tail(ntpservers), ntp)

\* Lines 246-268: the lines written.
Written(name, ntpservers) ==
  LET ntp == name = "NTPFILE"
  IN <<<<"#", " ", "G", "e", "n", "e", "r", "a", "t", "e", "d", " ", "b", "y", " ", "d", "h", "c", "p", "c", "d", " ", "f", "o", "r", " ", "i", "n", "t", "e", "r", "f", "a", "c", "e", " ">> \o IfName \o <<"\n">>>>
     \o (IF ntp THEN <<<<"r", "e", "s", "t", "r", "i", "c", "t", " ", "d", "e", "f", "a", "u", "l", "t", " ", "n", "o", "q", "u", "e", "r", "y", " ", "n", "o", "t", "r", "u", "s", "t", " ", "n", "o", "m", "o", "d", "i", "f", "y", "\n">>,
                       <<"r", "e", "s", "t", "r", "i", "c", "t", " ", "1", "2", "7", ".", "0", ".", "0", ".", "1", "\n">>>>
         ELSE <<>>)
     \o ServerLines(ntpservers, ntp)
     \o (IF ntp THEN <<<<"d", "r", "i", "f", "t", "f", "i", "l", "e", " ", "NTPDRIFTFILE", "\n">>,
                       <<"l", "o", "g", "f", "i", "l", "e", " ", "NTPLOGFILE", "\n">>>>
         ELSE <<>>)

\* _make_ntp on the file f; wr: fopen (file, "w") succeeds.
_make_ntp(f, ntpservers, wr) ==
  IF f.state = "unreadable" THEN [file |-> f, ret |-> -1]
  ELSE IF f.state = "present" /\ ReadServers(f.lines, 1, ntpservers, Len(ntpservers)) = 0
  THEN [file |-> f, ret |-> 0]
  ELSE IF ~wr THEN [file |-> f, ret |-> -1]
  ELSE [file |-> [name |-> f.name, state |-> "present",
                  lines |-> Written(f.name, ntpservers)],
        ret |-> 1]

\* ------------------------------------------------ make_resolv, lines 119-167
\* The lines make_resolv prints for a lease that carries no domain and no
\* search list.
RECURSIVE Nameservers(_)
Nameservers(dnsservers) ==
  IF dnsservers = <<>> THEN <<>>
  ELSE <<<<"n", "a", "m", "e", "s", "e", "r", "v", "e", "r", " ">> \o inet_ntoa(Head(dnsservers)) \o <<"\n">>>>
       \o Nameservers(Tail(dnsservers))

ResolvLines(dhcp) ==
  <<<<"#", " ", "G", "e", "n", "e", "r", "a", "t", "e", "d", " ", "b", "y", " ", "d", "h", "c", "p", "c", "d", " ", "f", "o", "r", " ", "i", "n", "t", "e", "r", "f", "a", "c", "e", " ">> \o IfName \o <<"\n">>>>
  \o Nameservers(dhcp.dnsservers)

\* RESOLVFILE after the calls of tr: make_resolv rewrites it when RESOLVCONF
\* does not exist and the file opens (lines 137-155); nothing else touches it.
ResolvAfter(file, tr, dhcp, env) ==
  IF ~env.resolvconf /\ \E i \in 1..Len(tr) : tr[i].op = "make_resolv" /\ tr[i].ok
  THEN ResolvLines(dhcp)
  ELSE file

\* --------------------------------------------------- make_ntp, lines 274-309
EvMakeNtpFile(name, r) == [op |-> "_make_ntp", file |-> name, ret |-> r]
EvExecCmd(cmd, spawned) == [op |-> "exec_cmd", cmd |-> cmd, spawned |-> spawned]

\* Lines 294-297: the first service is restarted.
RestartNtp(b, restart_ntp) == b.ntpservice # "" /\ restart_ntp

\* The second service restarted whenever its file was rewritten.
RestartOpenNtpAlways(b, restart_ntp, restart_openntp) ==
  b.openntpservice # "" /\ restart_openntp

\* Lines 299-306: the second service is restarted.
RestartOpenNtp(b, restart_ntp, restart_openntp) ==
  /\ b.openntpservice # ""
  /\ restart_openntp
  /\ b.ntpservice # "" => (b.ntpservice # b.openntpservice \/ ~restart_ntp)

\* make_ntp in the build b on the files f (NTPFILE) and o (OPENNTPFILE);
\* wr, owr: the file opens for writing; exec_cmd returns 0, forked or not.
MakeNtpFiles(b, f, o, ntpservers, wr, owr, fork) ==
  LET r == IF b.ntpfile THEN _make_ntp(f, ntpservers, wr) ELSE [file |-> f, ret |-> 0]
      ro == IF b.openntpfile THEN _make_ntp(o, ntpservers, owr) ELSE [file |-> o, ret |-> 0]
      restart_ntp == r.ret > 0
      restart_openntp == ro.ret > 0
  IN [ntpfile |-> r.file,
      openntpfile |-> ro.file,
      trace |-> (IF b.ntpfile THEN <<EvMakeNtpFile(f.name, r.ret)>> ELSE <<>>)
                \o (IF b.openntpfile THEN <<EvMakeNtpFile(o.name, ro.ret)>> ELSE <<>>)
                \o (IF RestartNtp(b, restart_ntp)
                    THEN <<EvExecCmd(b.ntpservice, fork)>> ELSE <<>>)
                \o (IF RestartOpenNtp(b, restart_ntp, restart_openntp)
                    THEN <<EvExecCmd(b.openntpservice, fork)>> ELSE <<>>),
      ret |-> 0]

\* The builds: each file and each service defined or not ("" for a service
\* that is not), the two services the same binary or two.
NtpBuilds ==
  [ntpfile : BOOLEAN, openntpfile : BOOLEAN,
   ntpservice : {"", "ntpd"}, openntpservice : {"", "ntpd", "openntpd"}]

\* Inputs of _make_ntp.
NtpAddrs == {1, 10}
NtpLists == SeqsUpTo(NtpAddrs, MaxNtp)

NtpLines ==
  {KwServer \o <<" ">> \o inet_ntoa(a) \o <<"\n">> : a \in NtpAddrs \cup {2}}
  \cup {KwServer \o <<" ">> \o inet_ntoa(1),
        KwServer \o <<" ">> \o inet_ntoa(1) \o <<" ", "i", "b", "u", "r", "s", "t", "\n">>,
        KwServer \o <<" ", " ">> \o inet_ntoa(1) \o <<"\n">>,
        KwServer \o <<"\n">>,
        <<"r", "e", "s", "t", "r", "i", "c", "t", " ">> \o inet_ntoa(1) \o <<"\n">>}

\* Only the last line of a file can lack its newline.
NtpContents ==
  {lines \in SeqsUpTo(NtpLines, MaxLines) :
     \A i \in 1..(Len(lines) - 1) : lines[i][Len(lines[i])] = "\n"}

NtpFiles ==
  {[name |-> name, state |-> state, lines |-> <<>>] :
     name \in {"NTPFILE", "OPENNTPFILE"}, state \in {"absent", "unreadable"}}
  \cup {[name |-> name, state |-> "present", lines |-> lines] :
          name \in {"NTPFILE", "OPENNTPFILE"}, lines \in NtpContents}

\* ----------------------------------------------------------------- actions
\* A build without ENABLE_NTP's files and services.
NoNtpBuild == [ntpfile |-> FALSE, openntpfile |-> FALSE,
               ntpservice |-> "", openntpservice |-> ""]

NoArgs == [null |-> FALSE, options |-> BaseOptions, dhcp |-> BaseLease,
           he |-> BaseEnv.he, curhostname |-> BaseEnv.curhostname]

Init ==
  /\ previous_routes = <<>>
  /\ previous_address = 0
  /\ previous_netmask = 0
  /\ mtu \in NativeMtus
  /\ previous_mtu = mtu
  /\ linux \in BOOLEAN
  /\ kroutes = {}
  /\ ntpfile = [name |-> "NTPFILE", state |-> "absent", lines |-> <<>>]
  /\ openntpfile = [name |-> "OPENNTPFILE", state |-> "absent", lines |-> <<>>]
  /\ ntpbuild = NoNtpBuild
  /\ resolvfile = <<>>
  /\ children = {}
  /\ pc = "idle"
  /\ pre = [routes |-> <<>>, address |-> 0, netmask |-> 0, pmtu |-> mtu, mtu |-> mtu]
  /\ args = NoArgs
  /\ trace = <<>>
  /\ ret = 0

\* One call of configure, from entry to return, as far as the interface_t,
\* the kernel's routes and the calls made go.
Reconcile(options, dhcp, env) ==
  /\ \E r \in {configure(Iface, kroutes, options, dhcp, env)} :
        /\ previous_routes' = r.s.routes
        /\ previous_address' = r.s.address
        /\ previous_netmask' = r.s.netmask
        /\ previous_mtu' = r.s.pmtu
        /\ kroutes' = r.k
        /\ trace' = r.trace
        /\ ret' = r.ret
  /\ pre' = Iface
  /\ args' = [null |-> FALSE, options |-> options, dhcp |-> dhcp,
               he |-> env.he, curhostname |-> env.curhostname]
  /\ UNCHANGED <<mtu, linux>>

\* One call of configure where the files and the child processes are the
\* environment's, standing behind the answers of env.
Call(options, dhcp, env) == Reconcile(options, dhcp, env) /\ UNCHANGED world

\* configure on leases and options that differ in their routes.
ConfigureRoutes ==
  /\ pc = "idle"
  /\ pc' = "done"
  /\ \E net \in Nets, routes \in RouteLists, dogateway \in BOOLEAN, metric \in Metrics,
        res \in {"ok", "fail"} :
       LET options == [BaseOptions EXCEPT !.dogateway = dogateway, !.metric = metric]
           dhcp == [BaseLease EXCEPT !.address = net[1], !.netmask = net[2],
                                     !.routes = routes]
       IN \E failing \in SUBSET Asked(Iface, options, dhcp, res),
             del \in {TRUE} \cup {~DelAsked(Iface, options, dhcp, res)} :
            Call(options, dhcp,
                 [BaseEnv EXCEPT !.add_address = res, !.del = del,
                                 !.add_route = AddRouteOutcome(dhcp, failing)])

\* configure on leases and options that differ in their MTU.
ConfigureMtu ==
  /\ pc = "idle"
  /\ pc' = "done"
  /\ \E net \in Nets, m \in LeaseMtus, domtu \in BOOLEAN, ok \in BOOLEAN,
        res \in AddressResults :
       Call([BaseOptions EXCEPT !.domtu = domtu],
            [BaseLease EXCEPT !.address = net[1], !.netmask = net[2], !.mtu = m],
            [BaseEnv EXCEPT !.add_address = res, !.set_mtu = ok])

\* configure on leases that carry DNS, NTP, NIS and host name data or none,
\* with the files, the hook script and fork available or not.
ConfigureServices ==
  /\ pc = "idle"
  /\ pc' = "done"
  /\ \E net \in Nets, manage \in BOOLEAN, data \in BOOLEAN, fopen \in BOOLEAN,
        fork \in BOOLEAN, script \in BOOLEAN, resolvconf \in BOOLEAN,
        res \in AddressResults :
       Call([BaseOptions EXCEPT !.dodns = manage, !.dontp = manage, !.donis = manage,
                                !.dohostname = manage],
            [BaseLease EXCEPT !.address = net[1], !.netmask = net[2],
                              !.dnsservers = IF data THEN <<1>> ELSE <<>>,
                              !.ntpservers = IF data THEN <<2>> ELSE <<>>,
                              !.nisservers = IF data THEN <<3>> ELSE <<>>,
                              !.hostname = IF data THEN Str(<<"h">>) ELSE NullStr],
            [BaseEnv EXCEPT !.add_address = res, !.fopen = fopen, !.fork = fork,
                            !.script = script, !.resolvconf = resolvconf])

\* configure on leases with a host name or none, with the reverse lookup and
\* the current host name answering one way or another.
HostNames == {NullStr, Str(<<>>), Str(<<"h">>)}
ReverseNames == {NullStr, Str(<<>>), Str(<<"n">>), Str(<<"n", " ", "x">>),
                 Str(<<"n", "DEL", "x">>), Str(<<"\t", "n">>)}
CurrentNames == {<<>>, StrNone, StrLocalhost, <<"b", "o", "x">>}

ConfigureHostname ==
  /\ pc = "idle"
  /\ pc' = "done"
  /\ \E net \in {<<0, 0>>, <<5, 12>>}, dohostname \in BOOLEAN, hostname \in HostNames,
        he \in ReverseNames, curhostname \in CurrentNames :
       Call([BaseOptions EXCEPT !.dohostname = dohostname],
            [BaseLease EXCEPT !.address = net[1], !.netmask = net[2],
                              !.hostname = hostname],
            [BaseEnv EXCEPT !.he = he, !.curhostname = curhostname])

\* configure with options, iface or dhcp NULL (lines 501-502).
ConfigureNull ==
  /\ pc = "idle"
  /\ pc' = "done"
  /\ pre' = Iface
  /\ args' = [NoArgs EXCEPT !.null = TRUE]
  /\ trace' = <<>>
  /\ ret' = -1
  /\ UNCHANGED <<previous_routes, previous_address, previous_netmask, previous_mtu,
                 mtu, linux, kroutes, world>>

\* The caller takes the result; the next lease event can follow.
Return ==
  /\ pc \in {"done", "again"}
  /\ pc' = "idle"
  /\ pre' = Iface
  /\ args' = NoArgs
  /\ trace' = <<>>
  /\ ret' = 0
  /\ UNCHANGED <<previous_routes, previous_address, previous_netmask, previous_mtu,
                 mtu, linux, kroutes, world>>

Next ==
  \/ ConfigureRoutes \/ ConfigureMtu \/ ConfigureServices \/ ConfigureHostname
  \/ ConfigureNull \/ Return

Spec == Init /\ [][Next]_vars

\* ------------------------------------------------ the strict-kernel system
\* The same interface over a kernel whose add_route fails exactly when the
\* route (destination, netmask, gateway) is already in its table and whose
\* del_route takes it out.  Routes also come and go by other hands.
StrictEnv(res) == [BaseEnv EXCEPT !.kernel = TRUE, !.add_address = res]

\* The leases of this system: lost, or an address with any route list.
StrictLeases ==
  {BaseLease}
  \cup {[BaseLease EXCEPT !.address = a, !.netmask = 12, !.routes = routes] :
          a \in {5, 6}, routes \in RouteLists}

ConfigureStrict ==
  /\ pc = "idle"
  /\ pc' = "done"
  /\ \E dhcp \in StrictLeases, dogateway \in BOOLEAN, metric \in Metrics,
        res \in {"ok", "fail"} :
       Call([BaseOptions EXCEPT !.dogateway = dogateway, !.metric = metric],
            dhcp, StrictEnv(res))

\* configure called again with the lease and options of the call before.
Again ==
  /\ pc = "done"
  /\ pc' = "again"
  /\ \E res \in {"ok", "fail"} : Call(args.options, args.dhcp, StrictEnv(res))

\* Someone else adds a route to the kernel's table or takes one out.
OtherActor ==
  /\ pc = "idle"
  /\ \E r \in RouteUniverse :
       kroutes' = IF r \in kroutes THEN kroutes \ {r} ELSE kroutes \cup {r}
  /\ UNCHANGED <<previous_routes, previous_address, previous_netmask, previous_mtu,
                 mtu, linux, world, pc, pre, args, trace, ret>>

NextK == ConfigureStrict \/ Again \/ OtherActor \/ Return

SpecK == Init /\ [][NextK]_vars

\* ------------------------------------- the strict kernel, gateways unmanaged
\* The strict-kernel system left to configure alone, with gateway management
\* off and no metric in every call: every route of the kernel's table is one
\* that configure added.
ConfigureNoGateway ==
  /\ pc = "idle"
  /\ pc' = "done"
  /\ \E dhcp \in StrictLeases, res \in {"ok", "fail"} :
       Call([BaseOptions EXCEPT !.dogateway = FALSE], dhcp, StrictEnv(res))

NextG == ConfigureNoGateway \/ Return

SpecG == Init /\ [][NextG]_vars

\* ----------------------------------------------------- the resolver file
\* configure on leases with DNS servers or none, with the helper there or
\* not, and the resolver file as the calls leave it.
ConfigureDns ==
  /\ pc = "idle"
  /\ pc' = "done"
  /\ \E net \in {<<0, 0>>, <<5, 12>>}, dodns \in BOOLEAN,
        dnsservers \in {<<>>, <<1>>, <<2, 1>>}, resolvconf \in BOOLEAN,
        fopen \in BOOLEAN, fork \in BOOLEAN, res \in {"ok", "fail"} :
       LET options == [BaseOptions EXCEPT !.dodns = dodns]
           dhcp == [BaseLease EXCEPT !.address = net[1], !.netmask = net[2],
                                     !.dnsservers = dnsservers]
           env == [BaseEnv EXCEPT !.resolvconf = resolvconf, !.fopen = fopen,
                                  !.fork = fork, !.add_address = res]
       IN \E r \in {configure(Iface, kroutes, options, dhcp, env)} :
            /\ previous_routes' = r.s.routes
            /\ previous_address' = r.s.address
            /\ previous_netmask' = r.s.netmask
            /\ previous_mtu' = r.s.pmtu
            /\ kroutes' = r.k
            /\ trace' = r.trace
            /\ ret' = r.ret
            /\ resolvfile' = ResolvAfter(resolvfile, r.trace, dhcp, env)
            /\ args' = [null |-> FALSE, options |-> options, dhcp |-> dhcp,
                        he |-> env.he, curhostname |-> env.curhostname, env |-> env]
  /\ pre' = Iface
  /\ UNCHANGED <<mtu, linux, ntpfile, openntpfile, ntpbuild, children>>

NextResolv == ConfigureDns \/ Return

SpecResolv == Init /\ [][NextResolv]_vars

\* ------------------------------------------------ the time-service file
\* _make_ntp on whatever time-service file it finds.
InitNtp ==
  /\ previous_routes = <<>>
  /\ previous_address = 0
  /\ previous_netmask = 0
  /\ mtu \in NativeMtus
  /\ previous_mtu = mtu
  /\ linux = FALSE
  /\ kroutes = {}
  /\ ntpfile \in NtpFiles
  /\ openntpfile = [name |-> "OPENNTPFILE", state |-> "absent", lines |-> <<>>]
  /\ ntpbuild = NoNtpBuild
  /\ resolvfile = <<>>
  /\ children = {}
  /\ pc = "idle"
  /\ pre = [routes |-> <<>>, address |-> 0, netmask |-> 0, pmtu |-> mtu, mtu |-> mtu]
  /\ args = NoArgs
  /\ trace = <<>>
  /\ ret = 0

MakeNtp ==
  /\ pc = "idle"
  /\ pc' = "done"
  /\ \E ntpservers \in NtpLists, wr \in BOOLEAN :
       /\ \E r \in {_make_ntp(ntpfile, ntpservers, wr)} :
            /\ ntpfile' = r.file
            /\ ret' = r.ret
       /\ args' = [NoArgs EXCEPT !.dhcp.ntpservers = ntpservers]
  /\ pre' = Iface
  /\ trace' = <<EvMakeNtp>>
  /\ UNCHANGED <<previous_routes, previous_address, previous_netmask, previous_mtu,
                 mtu, linux, kroutes, openntpfile, ntpbuild, resolvfile, children>>

NextNtp == MakeNtp \/ Return

SpecNtp == InitNtp /\ [][NextNtp]_vars

\* ============================================================== the claims
\* What the state after a call shows of it.
Done == pc = "done"
\* configure ran with none of its arguments NULL.
Reconciled == Done /\ ~args.null
Lease == args.dhcp
Opts == args.options
Events(op) == {i \in 1..Len(trace) : trace[i].op = op}
RouteCalls(op, r) == {i \in Events(op) : trace[i].route = r}
\* The routes in both the previous route set and the lease's.
Shared == SeqToSet(pre.routes) \cap SeqToSet(Lease.routes)
\* A default route that is not set because options->dogateway is off.
NotAsked(r) == r.destination = 0 /\ r.netmask = 0 /\ ~Opts.dogateway

\* ------------------------------------------------ the two time services
\* make_ntp, in any build, on the two files as earlier calls left them.
InitNtpd ==
  /\ previous_routes = <<>>
  /\ previous_address = 0
  /\ previous_netmask = 0
  /\ mtu \in NativeMtus
  /\ previous_mtu = mtu
  /\ linux = FALSE
  /\ kroutes = {}
  /\ ntpfile = [name |-> "NTPFILE", state |-> "absent", lines |-> <<>>]
  /\ openntpfile = [name |-> "OPENNTPFILE", state |-> "absent", lines |-> <<>>]
  /\ ntpbuild \in NtpBuilds
  /\ resolvfile = <<>>
  /\ children = {}
  /\ pc = "idle"
  /\ pre = [routes |-> <<>>, address |-> 0, netmask |-> 0, pmtu |-> mtu, mtu |-> mtu]
  /\ args = NoArgs
  /\ trace = <<>>
  /\ ret = 0

\* configure calls make_ntp only with a list that is not empty (line 659).
MakeNtpServices ==
  /\ pc = "idle"
  /\ pc' = "done"
  /\ \E ntpservers \in NtpLists \ {<<>>}, wr \in BOOLEAN, owr \in BOOLEAN, fork \in BOOLEAN :
       /\ \E r \in {MakeNtpFiles(ntpbuild, ntpfile, openntpfile, ntpservers, wr, owr, fork)} :
            /\ ntpfile' = r.ntpfile
            /\ openntpfile' = r.openntpfile
            /\ trace' = r.trace
            /\ ret' = r.ret
       /\ args' = [NoArgs EXCEPT !.dhcp.ntpservers = ntpservers]
  /\ pre' = Iface
  /\ UNCHANGED <<previous_routes, previous_address, previous_netmask, previous_mtu,
                 mtu, linux, kroutes, ntpbuild, resolvfile, children>>

\* Someone else removes one of the files or makes it unreadable.
FileLost ==
  /\ pc = "idle"
  /\ \E state \in {"absent", "unreadable"} :
       \/ /\ ntpfile' = [ntpfile EXCEPT !.state = state, !.lines = <<>>]
          /\ UNCHANGED openntpfile
       \/ /\ openntpfile' = [openntpfile EXCEPT !.state = state, !.lines = <<>>]
          /\ UNCHANGED ntpfile
  /\ UNCHANGED <<previous_routes, previous_address, previous_netmask, previous_mtu,
                 mtu, linux, kroutes, ntpbuild, resolvfile, children,
                 pc, pre, args, trace, ret>>

NextNtpd == MakeNtpServices \/ FileLost \/ Return

SpecNtpd == InitNtpd /\ [][NextNtpd]_vars

\* ------------------------------------------------------- the info file
\* write_info's HOSTNAME line for any host name of a lease.
InitInfo ==
  /\ previous_routes = <<>>
  /\ previous_address = 0
  /\ previous_netmask = 0
  /\ mtu \in NativeMtus
  /\ previous_mtu = mtu
  /\ linux = FALSE
  /\ kroutes = {}
  /\ ntpfile = [name |-> "NTPFILE", state |-> "absent", lines |-> <<>>]
  /\ openntpfile = [name |-> "OPENNTPFILE", state |-> "absent", lines |-> <<>>]
  /\ ntpbuild = NoNtpBuild
  /\ resolvfile = <<>>
  /\ children = {}
  /\ pc = "idle"
  /\ pre = [routes |-> <<>>, address |-> 0, netmask |-> 0, pmtu |-> mtu, mtu |-> mtu]
  /\ \E hostname \in Names : args = [NoArgs EXCEPT !.dhcp.hostname = hostname]
  /\ trace = <<>>
  /\ ret = 0

WriteInfoHostname ==
  /\ pc = "idle"
  /\ pc' = "done"
  /\ trace' = InfoHostname(args.dhcp)
  /\ ret' = 0
  /\ pre' = Iface
  /\ UNCHANGED <<previous_routes, previous_address, previous_netmask, previous_mtu,
                 mtu, linux, kroutes, world, args>>

NextInfo == WriteInfoHostname \/ Return

SpecInfo == InitInfo /\ [][NextInfo]_vars

\* ------------------------------------- write_info, lines 413-440 and 454-483
\* The names of the info file's variables whose values are strings that the
\* lease or the options supply.
KwHostname == <<"H", "O", "S", "T", "N", "A", "M", "E">>
KwDnsDomain == <<"D", "N", "S", "D", "O", "M", "A", "I", "N">>
KwDnsSearch == <<"D", "N", "S", "S", "E", "A", "R", "C", "H">>
KwFqdnHostname == <<"F", "Q", "D", "N", "H", "O", "S", "T", "N", "A", "M", "E">>
KwNisDomain == <<"N", "I", "S", "D", "O", "M", "A", "I", "N">>
KwRootPath == <<"R", "O", "O", "T", "P", "A", "T", "H">>
KwDhcpSname == <<"D", "H", "C", "P", "S", "N", "A", "M", "E">>
KwClassId == <<"C", "L", "A", "S", "S", "I", "D">>
KwClientId == <<"C", "L", "I", "E", "N", "T", "I", "D">>

\* fprintf (f, "KEY='%s'\n", value)
InfoLine(key, value) == EvFprintf(key \o <<"=", "'">> \o value \o <<"'", "\n">>)

\* hwaddr_ntoa (iface->hwaddr, iface->hwlen): hexadecimal digits and colons.
hwaddr_ntoa == <<"0", "0", ":", "0", "1">>

\* write_info's lines with a string value, in the order they are written.
\* The pointers of the lease are tested before use; servername, classid and
\* clientid are arrays, written always, an empty clientid giving way to the
\* hardware address. The name of the FQDN option is printed as it is.
write_info_strings(dhcp, options) ==
     (IF dhcp.hostname.null THEN <<>>
      ELSE <<InfoLine(KwHostname, cleanmetas(dhcp.hostname))>>)
  \o (IF dhcp.dnsdomain.null THEN <<>>
      ELSE <<InfoLine(KwDnsDomain, cleanmetas(dhcp.dnsdomain))>>)
  \o (IF dhcp.dnssearch.null THEN <<>>
      ELSE <<InfoLine(KwDnsSearch, cleanmetas(dhcp.dnssearch))>>)
  \o (IF dhcp.fqdn.null THEN <<>>
      ELSE <<InfoLine(KwFqdnHostname, dhcp.fqdn.chars)>>)
  \o (IF dhcp.nisdomain.null THEN <<>>
      ELSE <<InfoLine(KwNisDomain, cleanmetas(dhcp.nisdomain))>>)
  \o (IF dhcp.rootpath.null THEN <<>>
      ELSE <<InfoLine(KwRootPath, cleanmetas(dhcp.rootpath))>>)
  \o <<InfoLine(KwDhcpSname, cleanmetas(dhcp.servername))>>
  \o <<InfoLine(KwClassId, cleanmetas(options.classid))>>
  \o <<IF options.clientid.chars # <<>>
       THEN InfoLine(KwClientId, cleanmetas(options.clientid))
       ELSE InfoLine(KwClientId, hwaddr_ntoa)>>

\* The string fields of a lease and of the options, by position.
InfoFields == 1..9

\* A lease and options whose string fields are all rest, but field k, which
\* is name; the three arrays hold the characters of a string, never NULL.
InfoArgs(k, name, rest) ==
  LET v(i) == IF i = k THEN name ELSE rest
      arr(i) == Str(v(i).chars)
      strings == [hostname |-> v(1), dnsdomain |-> v(2), dnssearch |-> v(3),
                  fqdn |-> v(4), nisdomain |-> v(5), rootpath |-> v(6),
                  servername |-> arr(7)]
      ids == [classid |-> arr(8), clientid |-> arr(9)]
      With(base, more) ==
        [f \in DOMAIN base \cup DOMAIN more |->
           IF f \in DOMAIN more THEN more[f] ELSE base[f]]
  IN [NoArgs EXCEPT !.dhcp = With(BaseLease, strings),
                    !.options = With(BaseOptions, ids)]

\* write_info for any one string of any content beside the others.
WriteInfoStrings ==
  /\ pc = "idle"
  /\ \E k \in InfoFields, name \in Names, rest \in {NullStr, Str(<<"a">>)} :
       /\ args' = InfoArgs(k, name, rest)
       /\ trace' = write_info_strings(args'.dhcp, args'.options)
  /\ pc' = "done"
  /\ ret' = 0
  /\ pre' = Iface
  /\ UNCHANGED <<previous_routes, previous_address, previous_netmask, previous_mtu,
                 mtu, linux, kroutes, world>>

NextInfoStrings == WriteInfoStrings \/ Return

SpecInfoStrings == Init /\ [][NextInfoStrings]_vars

\* ------------------------------------------------- the child processes
\* configure and the processes it starts.  exec_cmd forks and returns at once
\* (lines 77-87); make_resolv, when RESOLVCONF exists and popen succeeds,
\* writes to the pipe and calls pclose (lines 126-155), which returns when the
\* child at the other end has terminated.  A call that reaches pclose stands
\* at pc = "pclose" until then.

\* The call's make_resolv went through the pipe.
Piped(tr, env) ==
  env.resolvconf /\ \E i \in 1..Len(tr) : tr[i].op = "make_resolv" /\ tr[i].ok

\* The position of the make_resolv call in the trace.
PipeAt(tr) == CHOOSE i \in 1..Len(tr) : tr[i].op = "make_resolv"

\* The children the calls tr[from..to] start.
Started(tr, from, to) ==
  {"script" : i \in {j \in from..to : tr[j].op = "exec_script" /\ tr[j].spawned}}
  \cup {"resolvconf -d" : i \in {j \in from..to : tr[j].op = "restore_resolv" /\ tr[j].spawned}}
  \cup {"resolvconf -a" : i \in {j \in from..to : tr[j].op = "make_resolv" /\ tr[j].ok
                                                   /\ Piped(tr, [resolvconf |-> TRUE])}}

\* configure is called and runs to its return or, through the pipe, to pclose;
\* by then the routes and the MTU are dealt with, and the address and netmask
\* are remembered only at the end (lines 705-713).
Enter ==
  /\ pc = "idle"
  /\ \E net \in {<<0, 0>>, <<5, 12>>}, dodns \in BOOLEAN, data \in BOOLEAN,
        resolvconf \in BOOLEAN, fork \in BOOLEAN, script \in BOOLEAN :
       LET options == [BaseOptions EXCEPT !.dodns = dodns]
           dhcp == [BaseLease EXCEPT !.address = net[1], !.netmask = net[2],
                                     !.dnsservers = IF data THEN <<1>> ELSE <<>>]
           env == [BaseEnv EXCEPT !.resolvconf = resolvconf, !.fork = fork,
                                  !.script = script]
       IN \E r \in {configure(Iface, kroutes, options, dhcp, env)} :
            /\ args' = [null |-> FALSE, options |-> options, dhcp |-> dhcp,
                        he |-> env.he, curhostname |-> env.curhostname, env |-> env]
            /\ previous_routes' = r.s.routes
            /\ previous_mtu' = r.s.pmtu
            /\ kroutes' = r.k
            /\ IF Piped(r.trace, env)
               THEN /\ pc' = "pclose"
                    /\ trace' = SubSeq(r.trace, 1, PipeAt(r.trace))
                    /\ children' = children \cup Started(r.trace, 1, PipeAt(r.trace))
                    /\ UNCHANGED <<previous_address, previous_netmask, ret>>
               ELSE /\ pc' = "done"
                    /\ trace' = r.trace
                    /\ children' = children \cup Started(r.trace, 1, Len(r.trace))
                    /\ previous_address' = r.s.address
                    /\ previous_netmask' = r.s.netmask
                    /\ ret' = r.ret
  /\ pre' = Iface
  /\ UNCHANGED <<mtu, linux, ntpfile, openntpfile, ntpbuild, resolvfile>>

\* pclose returns, the child having terminated, and configure runs on to its
\* return.
PcloseReturns ==
  /\ pc = "pclose"
  /\ "resolvconf -a" \notin children
  /\ pc' = "done"
  /\ \E r \in {configure(pre, kroutes, args.options, args.dhcp, args.env)} :
       /\ trace' = r.trace
       /\ children' = children \cup Started(r.trace, PipeAt(r.trace) + 1, Len(r.trace))
       /\ previous_address' = r.s.address
       /\ previous_netmask' = r.s.netmask
       /\ ret' = r.ret
  /\ UNCHANGED <<previous_routes, previous_mtu, mtu, linux, kroutes,
                 ntpfile, openntpfile, ntpbuild, resolvfile, pre, args>>

\* A child terminates, whenever it does.
ChildExit ==
  /\ \E c \in children : children' = children \ {c}
  /\ UNCHANGED <<previous_routes, previous_address, previous_netmask, previous_mtu,
                 mtu, linux, kroutes, ntpfile, openntpfile, ntpbuild, resolvfile,
                 pc, pre, args, trace, ret>>

NextProc == Enter \/ PcloseReturns \/ ChildExit \/ Return

\* configure's own steps are taken when they can be; no child has to terminate.
SpecProc == Init /\ [][NextProc]_vars /\ WF_vars(PcloseReturns) /\ WF_vars(Return)

\* ----------------------------------------------------------------------- C1
\* C1, as claimed: in a reconciliation with a non-zero lease address, a route
\* that is in both the previous route set and the lease's routes gets no
\* del_route call and no add_route call.
C1_NoFlap ==
  (Reconciled /\ Lease.address # 0) =>
    \A r \in Shared : RouteCalls("del_route", r) = {} /\ RouteCalls("add_route", r) = {}

\* C1, amended: such a route is never removed by the old-route loop; the
\* only del_route that can name it is the Linux subnet step's removal of the
\* metric-less duplicate.  add_route is called for it again whenever the
\* reconciliation gets past add_address and the route is not a default route
\* left out because gateway management is off.
C1_SharedNotRemoved ==
  (Reconciled /\ Lease.address # 0) =>
    \A r \in Shared :
      /\ \A i \in RouteCalls("del_route", r) :
           trace[i].part = "subnet" /\ trace[i].metric = 0 /\ Opts.metric > 0
      /\ (ret = 0 /\ ~NotAsked(r)) =>
           \E i \in RouteCalls("add_route", r) : trace[i].part = "lease"

\* A reconciliation that keeps one previous route, removes another and adds a
\* new one, the lease's second route being the shared one.
C1_Witness ==
  /\ Reconciled /\ Lease.address # 0 /\ ret = 0
  /\ Len(Lease.routes) = 2 /\ Lease.routes[2] \in SeqToSet(pre.routes)
  /\ Lease.routes[1] \notin SeqToSet(pre.routes)
  /\ RouteCalls("del_route", Lease.routes[2]) = {}
  /\ \E q \in SeqToSet(pre.routes) : RouteCalls("del_route", q) # {}

\* ----------------------------------------------------------------------- C2
\* The lease routes the route loop added, or failed to add while they were
\* among the previous routes.
Remembered ==
  {r \in SeqToSet(Lease.routes) :
     \E i \in RouteCalls("add_route", r) :
       trace[i].part = "lease" /\ (trace[i].ok \/ r \in SeqToSet(pre.routes))}

\* C2, as claimed: after a successful reconciliation with a non-zero lease
\* address previous_routes holds exactly the lease routes that were added or
\* that failed to add but were previous routes, and nothing of the earlier
\* set that the lease lacks; for every lease route list, the empty one too.
C2_FullyReplaced ==
  (Reconciled /\ ret = 0 /\ Lease.address # 0) =>
    SeqToSet(previous_routes) = Remembered

\* The same with a lease that carries at least one route: this part holds.
C2_ReplacedByNonEmptyLease ==
  (Reconciled /\ ret = 0 /\ Lease.address # 0 /\ Lease.routes # <<>>) =>
    SeqToSet(previous_routes) = Remembered

\* ----------------------------------------------------------------------- C3
\* The route calls of this reconciliation that name r.
CallsFor(r) == RouteCalls("del_route", r) \cup RouteCalls("add_route", r)
Latest(S) == CHOOSE i \in S : \A j \in S : j <= i

\* C3, as claimed: when configure returns, no route whose latest kernel
\* request was del_route is still in previous_routes.
C3_NoRemovedRouteRemembered ==
  Done =>
    \A r \in SeqToSet(previous_routes) :
      CallsFor(r) # {} => trace[Latest(CallsFor(r))].op # "del_route"

\* ----------------------------------------------------------------------- C4
Hooks == Events("exec_script")

\* C4, as claimed: a reconciliation with a zero lease address ends with
\* previous_routes empty and previous_address and previous_netmask zero,
\* restores the native MTU if an override was applied, fires "down" exactly
\* once and calls neither add_address nor add_route, from every prior state.
C4_Cleanup ==
  (Reconciled /\ Lease.address = 0) =>
    /\ previous_routes = <<>> /\ previous_address = 0 /\ previous_netmask = 0
    /\ pre.pmtu # pre.mtu => \E i \in Events("set_mtu") : trace[i].mtu = pre.mtu
    /\ Cardinality(Hooks) = 1 /\ \A i \in Hooks : trace[i].arg = "down"
    /\ Events("add_address") = {} /\ Events("add_route") = {}

\* C4, amended: the same, except that "down" is fired exactly once when a
\* previous address was configured and not at all when none was.
C4_CleanupAmended ==
  (Reconciled /\ Lease.address = 0) =>
    /\ previous_routes = <<>> /\ previous_address = 0 /\ previous_netmask = 0
    /\ pre.pmtu # pre.mtu <=> \E i \in Events("set_mtu") : trace[i].mtu = pre.mtu
    /\ previous_mtu = mtu
    /\ Cardinality(Hooks) = (IF pre.address # 0 THEN 1 ELSE 0)
    /\ \A i \in Hooks : trace[i].arg = "down"
    /\ Events("add_address") = {} /\ Events("add_route") = {}
    /\ ret = 0

\* A release from a state with an address, routes and an MTU override.
C4_Witness ==
  /\ Reconciled /\ Lease.address = 0
  /\ pre.address # 0 /\ pre.routes # <<>> /\ pre.pmtu # pre.mtu
  /\ Cardinality(Hooks) = 1

\* ----------------------------------------------------------------------- C5
\* The hook the claim selects.
ExpectedHook ==
  IF Lease.address = 0 THEN "down"
  ELSE IF pre.address # Lease.address \/ pre.netmask # Lease.netmask THEN "new"
  ELSE "up"

\* C5, as claimed: each reconciliation fires exactly one lifecycle hook,
\* "down" with a zero lease address, "new" when the address or netmask
\* differs from the previous one, "up" when both are unchanged.
C5_OneHook ==
  Reconciled => Cardinality(Hooks) = 1 /\ \A i \in Hooks : trace[i].arg = ExpectedHook

\* C5, amended: a reconciliation fires at most one hook, selected as
\* claimed; it fires none when it is aborted by add_address or when it is a
\* release with no previous address, and exactly one otherwise.
C5_HookSelection ==
  Reconciled =>
    /\ \A i \in Hooks : trace[i].arg = ExpectedHook
    /\ Cardinality(Hooks) =
         (IF ret # 0 \/ (Lease.address = 0 /\ pre.address = 0) THEN 0 ELSE 1)

\* A renewal of the same address and netmask: "up".
C5_Witness ==
  /\ Reconciled /\ Lease.address # 0
  /\ \E i \in Hooks : trace[i].arg = "up" /\ trace[i].spawned

\* ----------------------------------------------------------------------- C6
\* C6: configure returns failure exactly when an argument is NULL or
\* add_address fails other than with EEXIST; whatever else fails, it
\* returns success.
C6_ReturnValue ==
  Done =>
    /\ ret \in {0, -1}
    /\ ret = -1 <=>
         (args.null \/ \E i \in Events("add_address") : trace[i].res = "fail")

\* A successful return although del_route and a lease route's add_route failed.
C6_Witness ==
  /\ Reconciled /\ ret = 0
  /\ \E i \in Events("del_route") : ~trace[i].ok
  /\ \E i \in Events("add_route") : ~trace[i].ok

\* ----------------------------------------------------------------------- C7
AddressFailed == Reconciled /\ \E i \in Events("add_address") : trace[i].res = "fail"
NothingAfterAddress ==
  \A i \in 1..Len(trace) :
    trace[i].op \notin {"add_route", "make_resolv", "make_ntp", "make_nis",
                        "sethostname", "write_info", "exec_script", "del_address"}

\* C7, as claimed: when add_address fails other than with EEXIST, the whole
\* interface state (routes, address, netmask and MTU) is as before the call
\* and there is no add_route, no config write, no hostname change, no hook.
C7_AbortLeavesState ==
  AddressFailed =>
    /\ previous_routes = pre.routes /\ previous_address = pre.address
    /\ previous_netmask = pre.netmask /\ previous_mtu = pre.pmtu
    /\ NothingAfterAddress

\* C7, amended: previous_routes, previous_address and previous_netmask are
\* as before the call; previous_mtu is as before, or it is the MTU that a
\* successful set_mtu of this call applied before add_address was tried.
C7_AbortLeavesRoutesAndAddress ==
  AddressFailed =>
    /\ ret = -1
    /\ previous_routes = pre.routes /\ previous_address = pre.address
    /\ previous_netmask = pre.netmask
    /\ \/ previous_mtu = pre.pmtu
       \/ /\ Opts.domtu
          /\ \E i \in Events("set_mtu") : trace[i].ok /\ trace[i].mtu = previous_mtu
    /\ NothingAfterAddress

\* An aborted reconciliation that had already changed the MTU.
C7_Witness == AddressFailed /\ previous_mtu # pre.pmtu /\ pre.address # 0

\* ----------------------------------------------------------------------- C9
\* The MTU the claim has configure aim at.
ClaimedTarget == IF Lease.mtu # 0 THEN Lease.mtu ELSE pre.mtu

\* C9, as claimed: set_mtu is never called with 0; with MTU management on,
\* the target is the lease MTU when it is non-zero and the native MTU
\* otherwise, set_mtu is called only with the target and only when it
\* differs from previous_mtu, and previous_mtu changes only to a value that
\* a set_mtu call of this reconciliation applied successfully.
C9_Mtu ==
  Reconciled =>
    /\ \A i \in Events("set_mtu") : trace[i].mtu # 0
    /\ (Opts.domtu /\ (Lease.address = 0 => Lease.mtu = 0)) =>
         \A i \in Events("set_mtu") :
           trace[i].mtu = ClaimedTarget /\ ClaimedTarget # pre.pmtu
    /\ (Opts.domtu /\ previous_mtu # pre.pmtu) =>
         \E i \in Events("set_mtu") : trace[i].ok /\ trace[i].mtu = previous_mtu

\* The same on the lease-present path alone: this part holds.
C9_MtuWithLease ==
  (Reconciled /\ Lease.address # 0) =>
    /\ \A i \in Events("set_mtu") :
         /\ trace[i].mtu # 0
         /\ Opts.domtu
         /\ trace[i].mtu = ClaimedTarget /\ ClaimedTarget # pre.pmtu
    /\ previous_mtu # pre.pmtu =>
         \E i \in Events("set_mtu") : trace[i].ok /\ trace[i].mtu = previous_mtu

HasServerLine(lines, a) ==
  \E n \in 1..Len(lines) :
    LET want == KwServer \o <<" ">> \o inet_ntoa(a)
        line == lines[n]
    IN /\ Len(line) >= Len(want)
       /\ SubSeq(line, 1, Len(want)) = want
       /\ Len(line) > Len(want) => line[Len(want) + 1] \in {" ", "\n"}

CoversLease(f, ntpservers) ==
  f.state = "present" /\ \A i \in 1..Len(ntpservers) : HasServerLine(f.lines, ntpservers[i])

\* C10, as claimed: when the existing time-service file has a `server <addr>`
\* line for each address of the lease's NTP server list, _make_ntp leaves the
\* file as it is and returns 0.
C10_NoRewrite ==
  [][(pc = "idle" /\ pc' = "done" /\ CoversLease(ntpfile, args'.dhcp.ntpservers)) =>
       (ret' = 0 /\ ntpfile' = ntpfile)]_vars

\* The same for a lease whose NTP server list names no address twice.
C10_NoRewriteDistinct ==
  [][(/\ pc = "idle" /\ pc' = "done"
      /\ CoversLease(ntpfile, args'.dhcp.ntpservers)
      /\ \A i, j \in 1..Len(args'.dhcp.ntpservers) :
           args'.dhcp.ntpservers[i] = args'.dhcp.ntpservers[j] => i = j) =>
       (ret' = 0 /\ ntpfile' = ntpfile)]_vars

\* ---------------------------------------------------------------------- C11
\* The address texts of the file's `server` lines, in file order.
RECURSIVE ServerTexts(_)
ServerTexts(lines) ==
  IF lines = <<>> THEN <<>>
  ELSE (IF ServerToken(Head(lines)).null THEN <<>>
        ELSE <<ServerToken(Head(lines)).chars>>)
       \o ServerTexts(Tail(lines))

LeaseTexts(ntpservers) == [i \in 1..Len(ntpservers) |-> inet_ntoa(ntpservers[i])]

\* The existing file lacks a `server` line for at least one lease address.
LacksLease(f, ntpservers) ==
  f.state = "present" /\ \E i \in 1..Len(ntpservers) : ~HasServerLine(f.lines, ntpservers[i])

\* C11, as claimed: when the existing time-service file lacks a `server` line
\* for at least one lease NTP address, _make_ntp (unless it reports with -1
\* that the file cannot be opened) rewrites the file so that its `server`
\* lines are exactly the lease's addresses in lease order, and returns 1.
C11_Rewrite ==
  [][(/\ pc = "idle" /\ pc' = "done"
      /\ LacksLease(ntpfile, args'.dhcp.ntpservers)
      /\ ret' # -1) =>
       (/\ ret' = 1
        /\ ServerTexts(ntpfile'.lines) = LeaseTexts(args'.dhcp.ntpservers))]_vars

\* The same for a file that has no two `server` lines for one address.
C11_RewriteNoRepeats ==
  [][(/\ pc = "idle" /\ pc' = "done"
      /\ LacksLease(ntpfile, args'.dhcp.ntpservers)
      /\ \A i, j \in 1..Len(ServerTexts(ntpfile.lines)) :
           ServerTexts(ntpfile.lines)[i] = ServerTexts(ntpfile.lines)[j] => i = j
      /\ ret' # -1) =>
       (/\ ret' = 1
        /\ ServerTexts(ntpfile'.lines) = LeaseTexts(args'.dhcp.ntpservers))]_vars

\* ---------------------------------------------------------------------- C12
Rewritten(name) ==
  \E i \in Events("_make_ntp") : trace[i].file = name /\ trace[i].ret = 1

Restarts(cmd) == {i \in Events("exec_cmd") : trace[i].cmd = cmd}

\* The config files of the service binary cmd.
FilesOf(cmd) ==
  (IF ntpbuild.ntpservice = cmd THEN {"NTPFILE"} ELSE {})
  \cup (IF ntpbuild.openntpservice = cmd THEN {"OPENNTPFILE"} ELSE {})

\* C12: in one make_ntp a time service is restarted only if one of its
\* config files was rewritten and at most once, also when both files belong
\* to it and both were rewritten; the second service is restarted when its
\* file was rewritten and either its binary differs from the first or the
\* first was not restarted.
C12_Restart ==
  Done =>
    /\ \A cmd \in {"ntpd", "openntpd"} :
         /\ Restarts(cmd) # {} => \E name \in FilesOf(cmd) : Rewritten(name)
         /\ Cardinality(Restarts(cmd)) <= 1
    /\ (/\ ntpbuild.openntpservice # ""
        /\ Rewritten("OPENNTPFILE")
        /\ \/ ntpbuild.openntpservice # ntpbuild.ntpservice
           \/ Restarts(ntpbuild.ntpservice) = {})
       => Restarts(ntpbuild.openntpservice) # {}

\* Both files rewritten for one service binary, restarted once.
C12_Witness ==
  /\ Done
  /\ ntpbuild.ntpservice = "ntpd" /\ ntpbuild.openntpservice = "ntpd"
  /\ Rewritten("NTPFILE") /\ Rewritten("OPENNTPFILE")
  /\ Cardinality(Restarts("ntpd")) = 1

\* ---------------------------------------------------------------------- C13
\* configure got as far as the host name step.
AtHostname == Reconciled /\ ret = 0 /\ Lease.address # 0

SpaceOrControl(c) == CharCode(c) <= 32 \/ CharCode(c) = 127

\* The name up to its first whitespace or control character.
RECURSIVE UpToSpace(_)
UpToSpace(name) ==
  IF name = <<>> \/ SpaceOrControl(Head(name)) THEN <<>>
  ELSE <<Head(name)>> \o UpToSpace(Tail(name))

Asks ==
  \/ Opts.dohostname
  \/ args.curhostname \in {<<>>, StrNone, StrLocalhost}

\* C13, as claimed: sethostname is called if and only if (host name management
\* is requested, or the current host name is empty, "(none)" or "localhost")
\* and the candidate is not empty, the candidate being the lease's host name
\* when it has one and otherwise the reverse-DNS name up to its first
\* whitespace or control character; it is called with the candidate.
C13_Hostname ==
  AtHostname =>
    LET candidate == IF ~Lease.hostname.null THEN Lease.hostname.chars
                     ELSE IF args.he.null THEN <<>> ELSE UpToSpace(args.he.chars)
    IN /\ Events("sethostname") # {} <=> (Asks /\ candidate # <<>>)
       /\ \A i \in Events("sethostname") : trace[i].name = candidate

\* C13, amended: the same where the reverse-DNS name is a candidate only when
\* host name management is requested, and is cut at its first character
\* whose code is not above 32; sethostname is called at most once and never
\* with the empty string.
C13_HostnameLookedUp ==
  AtHostname =>
    LET candidate == IF ~Lease.hostname.null THEN Lease.hostname.chars
                     ELSE IF args.he.null \/ ~Opts.dohostname THEN <<>>
                     ELSE NameHead(args.he.chars)
    IN /\ Events("sethostname") # {} <=> (Asks /\ candidate # <<>>)
       /\ \A i \in Events("sethostname") : trace[i].name = candidate /\ trace[i].name # <<>>
       /\ Cardinality(Events("sethostname")) <= 1

\* The host name set from a reverse-DNS name that was cut short.
C13_Witness ==
  /\ AtHostname
  /\ Lease.hostname.null /\ Opts.dohostname
  /\ args.he = Str(<<"n", " ", "x">>)
  /\ \E i \in Events("sethostname") : trace[i].name = <<"n">>

\* ---------------------------------------------------------------------- C14
\* A shell reading the word that follows `KEY=`: inside single quotes every
\* character up to the closing quote is taken as it is; outside, a backslash
\* takes the next character as it is and an unquoted newline ends the word.
\* quoted: inside single quotes; ok is FALSE for a quote left open, a
\* backslash with nothing after it, or text after the word's end.
RECURSIVE ShellWord(_, _, _)
ShellWord(text, quoted, acc) ==
  IF text = <<>> THEN [ok |-> FALSE, value |-> acc]
  ELSE LET c == Head(text)
           rest == Tail(text)
       IN IF quoted
          THEN IF c = "'" THEN ShellWord(rest, FALSE, acc)
               ELSE ShellWord(rest, TRUE, Append(acc, c))
          ELSE CASE c = "'" -> ShellWord(rest, TRUE, acc)
                 [] c = "\\" -> IF rest = <<>> THEN [ok |-> FALSE, value |-> acc]
                                ELSE ShellWord(Tail(rest), FALSE, Append(acc, Head(rest)))
                 [] c = "\n" -> [ok |-> rest = <<>>, value |-> acc]
                 [] c = " " -> [ok |-> FALSE, value |-> acc]
                 [] OTHER -> ShellWord(rest, FALSE, Append(acc, c))

\* The value a shell assigns on reading the line KEY=word.
ShellValue(line) ==
  LET eq == FirstDelim(line, {"="})
  IN ShellWord(SubSeq(line, eq + 1, Len(line)), FALSE, <<>>)

\* Each ' replaced by the four characters '\'' and every other one kept.
Quoted(chars) ==
  LET piece(c) == IF c = "'" THEN <<"'", "\\", "'", "'">> ELSE <<c>>
      F[n \in 0..Len(chars)] == IF n = 0 THEN <<>> ELSE F[n - 1] \o piece(chars[n])
  IN F[Len(chars)]

\* C14: for every host name, the HOSTNAME line of the info file, read back by
\* a shell, gives the host name; cleanmetas replaces each ' by '\'' and
\* copies every other character unchanged.
C14_RoundTrip ==
  (Done /\ Events("fprintf") # {}) =>
    /\ cleanmetas(Lease.hostname) = Quoted(Lease.hostname.chars)
    /\ \A i \in Events("fprintf") :
         /\ ShellValue(trace[i].text).ok
         /\ ShellValue(trace[i].text).value = Lease.hostname.chars

\* A host name with a quote, a backslash and a space, written and read back.
C14_Witness ==
  /\ Done /\ Events("fprintf") # {}
  /\ Lease.hostname.chars = <<"'", "\\", " ">>
  /\ ShellValue(trace[1].text).value = <<"'", "\\", " ">>

\* ---------------------------------------------------------------------- C15
\* C15, as claimed: a call of configure returns even if no child it started
\* ever terminates: a call that stands at pclose gets to its return.
C15_Returns == (pc = "pclose") ~> (pc = "done")

\* ---------------------------------------------------------------------- C16
\* The del_route calls of the old-route loop (lines 507-526).
StaleRemovals == {i \in Events("del_route") : trace[i].part = "old"}

\* The lease grants no address or has no route equal to r.
NotInLease(r) ==
  Lease.address = 0 \/ \A j \in 1..Len(Lease.routes) : ~SameRoute(Lease.routes[j], r)

\* A default route has destination 0 and netmask 0.
DefaultRoute(r) == r.destination = 0 /\ r.netmask = 0

RemovalsFirst ==
  \A i \in StaleRemovals :
    \A j \in Events("add_address") \cup Events("add_route") : i < j

\* C16, as claimed: del_route is requested for a route r of previous_routes
\* if and only if (r is not a default route or gateway management is on) and
\* (the lease address is zero or no lease route equals r); these requests
\* all come before add_address and before every add_route.
C16_StaleRemoval ==
  Reconciled =>
    /\ \A r \in SeqToSet(pre.routes) :
         (\E i \in StaleRemovals : trace[i].route = r)
           <=> ((~DefaultRoute(r) \/ Opts.dogateway) /\ NotInLease(r))
    /\ RemovalsFirst

\* The same where "not a default route" is "destination not 0", as line 510
\* tests it.
C16_StaleRemovalByDestination ==
  Reconciled =>
    /\ \A r \in SeqToSet(pre.routes) :
         (\E i \in StaleRemovals : trace[i].route = r)
           <=> ((r.destination # 0 \/ Opts.dogateway) /\ NotInLease(r))
    /\ RemovalsFirst

\* ---------------------------------------------------------------------- C17
AddressAdded(i) ==
  \E j \in Events("add_address") : j < i /\ trace[j].res \in {"ok", "EEXIST"}

\* The info file is written before the "new" or "up" hook, and a hook is the
\* call's last side effect.
InfoThenHook ==
  \A h \in Hooks :
    /\ h = Len(trace)
    /\ trace[h].arg \in {"new", "up"} => \E w \in Events("write_info") : w < h

\* C17, as claimed: within a reconciliation del_address of the previous
\* address is issued only after add_address of the new address has succeeded
\* or found it there, and only when the previous address is not zero and
\* differs from the new one; the info file is written before the "new" or
\* "up" hook and the hook is the last side effect.
C17_MakeBeforeBreak ==
  Reconciled =>
    /\ \A i \in Events("del_address") :
         /\ AddressAdded(i)
         /\ pre.address # 0 /\ pre.address # Lease.address
         /\ trace[i].address = pre.address
    /\ InfoThenHook

\* C17, amended: that holds of a reconciliation whose lease has an address,
\* where del_address is issued exactly when add_address did not fail and the
\* previous address is not zero and differs from the lease's; a release calls
\* no add_address and issues del_address exactly when the previous address is
\* not zero.
C17_MakeBeforeBreakWithAddress ==
  Reconciled =>
    /\ \A i \in Events("del_address") : trace[i].address = pre.address
    /\ Cardinality(Events("del_address")) <= 1
    /\ Lease.address # 0 =>
         /\ \A i \in Events("del_address") : AddressAdded(i)
         /\ Events("del_address") # {}
              <=> (ret = 0 /\ pre.address # 0 /\ pre.address # Lease.address)
    /\ Lease.address = 0 =>
         /\ Events("add_address") = {}
         /\ Events("del_address") # {} <=> pre.address # 0
    /\ InfoThenHook

\* The address changes: the new one is added, the old one deleted, the info
\* file written and the "new" hook fired last.
C17_Witness ==
  /\ Reconciled /\ ret = 0
  /\ pre.address = 5 /\ Lease.address = 6
  /\ \E a \in Events("add_address"), d \in Events("del_address"),
        w \in Events("write_info"), h \in Hooks :
       a < d /\ d < w /\ w < h /\ trace[h].arg = "new" /\ h = Len(trace)

\* ---------------------------------------------------------------------- C18
\* C18, as claimed: with gateway management off for the whole run, every
\* route that was added and remembered is requested for removal by the first
\* later reconciliation whose lease no longer has it, and no route that
\* configure added is in the kernel's table without being in previous_routes.
C18_AddRemoveSymmetry ==
  /\ Reconciled =>
       \A r \in SeqToSet(pre.routes) :
         NotInLease(r) => \E i \in StaleRemovals : trace[i].route = r
  /\ kroutes \subseteq SeqToSet(previous_routes)

\* The same of the routes whose destination is not 0.
C18_AddRemoveSymmetryByDestination ==
  /\ Reconciled =>
       \A r \in SeqToSet(pre.routes) :
         (r.destination # 0 /\ NotInLease(r)) => \E i \in StaleRemovals : trace[i].route = r
  /\ {r \in kroutes : r.destination # 0} \subseteq SeqToSet(previous_routes)

\* ---------------------------------------------------------------------- C19
\* C19: a release asks the resolver-update helper to delete the interface's
\* entry only when the helper is there and a previous address was configured,
\* and leaves the resolver file as it was, whichever mode wrote it.
C19_Teardown ==
  [][(pc = "idle" /\ pc' = "done" /\ args'.dhcp.address = 0) =>
       /\ \A i \in 1..Len(trace') :
            (trace'[i].op = "restore_resolv" /\ trace'[i].spawned)
              => (args'.env.resolvconf /\ previous_address # 0)
       /\ \A i \in 1..Len(trace') : trace'[i].op # "make_resolv"
       /\ resolvfile' = resolvfile]_vars

\* After a release with no helper the resolver file still names the released
\* lease's two servers.
C19_Witness ==
  /\ Reconciled /\ Lease.address = 0 /\ pre.address # 0
  /\ ~args.env.resolvconf
  /\ resolvfile = ResolvLines([dnsservers |-> <<2, 1>>])
  /\ \E i \in Events("restore_resolv") : ~trace[i].spawned

\* ---------------------------------------------------------------------- C20
\* C20: from the empty interface state on, after any calls, previous_routes
\* is not empty only if previous_address is not zero, and after a call that
\* returned 0 for a lease with an address previous_address and
\* previous_netmask are the lease's.
C20_Coupling ==
  /\ previous_routes # <<>> => previous_address # 0
  /\ (Reconciled /\ ret = 0 /\ Lease.address # 0) =>
       (previous_address = Lease.address /\ previous_netmask = Lease.netmask)

\* A lease that changes only the netmask, with routes, taken up.
C20_Witness ==
  /\ Reconciled /\ ret = 0
  /\ pre.address = Lease.address /\ pre.netmask # Lease.netmask /\ pre.address # 0
  /\ previous_routes # <<>>
  /\ previous_netmask = Lease.netmask

\* ---------------------------------------------------------------------- C21
\* The value the line of the info file for key must carry, if lease and
\* options give one: the field's characters; NULL pointers and an empty
\* clientid give none.
Supplied ==
  {<<KwHostname, Lease.hostname>>, <<KwDnsDomain, Lease.dnsdomain>>,
   <<KwDnsSearch, Lease.dnssearch>>, <<KwFqdnHostname, Lease.fqdn>>,
   <<KwNisDomain, Lease.nisdomain>>, <<KwRootPath, Lease.rootpath>>,
   <<KwDhcpSname, Lease.servername>>, <<KwClassId, Opts.classid>>,
   <<KwClientId, IF Opts.clientid.chars = <<>> THEN NullStr ELSE Opts.clientid>>}

\* The line for key carries value with each quote closed, escaped and
\* reopened, and a shell reading the line gets value and nothing else.
EscapedLine(key, value) ==
  \E i \in Events("fprintf") :
    /\ trace[i].text = key \o <<"=", "'">> \o Quoted(value.chars) \o <<"'", "\n">>
    /\ ShellValue(trace[i].text).ok
    /\ ShellValue(trace[i].text).value = value.chars

\* C21, as claimed: every string value of the lease or the options that
\* write_info puts between single quotes (HOSTNAME, DNSDOMAIN, DNSSEARCH,
\* FQDNHOSTNAME, NISDOMAIN, ROOTPATH, DHCPSNAME, CLASSID, CLIENTID) has each
\* of its single quotes escaped, so that no value ends its own assignment.
C21_Escaped ==
  Done => \A kv \in Supplied : ~kv[2].null => EscapedLine(kv[1], kv[2])

\* C21 without FQDNHOSTNAME: the eight values that go through cleanmetas are
\* escaped.
C21_EscapedButFqdn ==
  Done => \A kv \in Supplied :
            (~kv[2].null /\ kv[1] # KwFqdnHostname) => EscapedLine(kv[1], kv[2])

\* A value with a quote on a line that is escaped, beside the other lines.
C21_EscapedButFqdnSeen ==
  /\ Done
  /\ Lease.rootpath.chars = <<"a", "'", "\\">>
  /\ Lease.hostname.chars = <<"a">>
  /\ Len(trace) = 9
  /\ EscapedLine(KwRootPath, Lease.rootpath)

====
